---- MODULE Spec2Model ----
(***************************************************************************)
(* Model of the STT summarization backends of realtime-whisper.            *)
(* Five server files implement POST /api/summarize: clean_server,          *)
(* working_server, main, simple_http_server and simple_server.  One        *)
(* request is followed from receipt to response; the provider (HTTP) and   *)
(* the mail relay (SMTP) are external and answer nondeterministically.     *)
(* Text is a sequence of one-character strings.                            *)
(***************************************************************************)
EXTENDS Integers, Sequences, FiniteSets, TLC

VARIABLES variant, env, pc, req, providerLog, providerResult, summary,
          smtpLog, smtpResult, resp,
          env2, hpc, health, health2

vars == <<variant, env, pc, req, providerLog, providerResult, summary,
          smtpLog, smtpResult, resp, env2, hpc, health, health2>>

\* The summarize request in flight
rvars == <<pc, req, providerLog, providerResult, summary, smtpLog, smtpResult, resp>>

\* A GET /health request, and a second configuration with its answer
hvars == <<env2, hpc, health, health2>>

(***************************************************************************)
(* Bounds and program constants                                            *)
(***************************************************************************)
MaxPad == 10

MIN_TRANSCRIPT_LEN == 10

GMAIL_USER_PREFIX == 10

Variants == {"clean_server", "working_server", "main", "simple_http_server",
             "simple_server"}

(***************************************************************************)
(* Python values: a dict key that is missing, None, or a str               *)
(***************************************************************************)
Missing == [tag |-> "missing", v |-> <<>>]

PyNone == [tag |-> "None", v |-> <<>>]

Str(s) == [tag |-> "str", v |-> s]

\* bool(x) for x a str or None: only a non-empty str is truthy
Truthy(x) == x.tag = "str" /\ x.v /= <<>>

\* dict.get(key, '') : the default replaces a missing key only
GetOrEmpty(x) == IF x.tag = "missing" THEN Str(<<>>) ELSE x

RECURSIVE Rep(_, _)
Rep(c, n) == IF n = 0 THEN <<>> ELSE <<c>> \o Rep(c, n - 1)

IsSpace(c) == c = " "

RECURSIVE LStrip(_)
LStrip(s) == IF s /= <<>> /\ IsSpace(Head(s)) THEN LStrip(Tail(s)) ELSE s

RECURSIVE RStrip(_)
RStrip(s) ==
    IF s /= <<>> /\ IsSpace(s[Len(s)]) THEN RStrip(SubSeq(s, 1, Len(s) - 1)) ELSE s

\* str.strip()
Strip(s) == RStrip(LStrip(s))

\* str(None) as rendered by an f-string
NoneText == <<"N", "o", "n", "e">>

EscapeChar(c) ==
    IF c = "<" THEN <<"&", "l", "t", ";">>
    ELSE IF c = ">" THEN <<"&", "g", "t", ";">>
    ELSE <<c>>

RECURSIVE EscapeHtml(_)
\* summary.replace('<', '&lt;').replace('>', '&gt;')
EscapeHtml(s) == IF s = <<>> THEN <<>> ELSE EscapeChar(Head(s)) \o EscapeHtml(Tail(s))

(***************************************************************************)
(* Inputs: request bodies, configuration, provider and relay answers       *)
(***************************************************************************)
KOREAN == <<"k", "o", "r", "e", "a", "n">>

ENGLISH == <<"e", "n", "g", "l", "i", "s", "h">>

FRENCH == <<"f", "r", "e", "n", "c", "h">>

Transcripts ==
    { Rep(" ", i) \o Rep("a", j) \o Rep(" ", k) :
        i \in {0, 1}, j \in {0, MIN_TRANSCRIPT_LEN - 1, MIN_TRANSCRIPT_LEN},
        k \in {0, MaxPad} }

Languages == {Missing, Str(KOREAN), Str(ENGLISH), Str(FRENCH), Str(<<>>)}

Emails == {Missing, Str(<<>>), Str(<<" ">>), Str(<<"a", "@", "b">>)}

MeetingKeys == {"date", "startTime", "duration", "segmentCount"}

NoMeetingInfo == [tag |-> "missing", keys |-> {}]

MeetingInfos ==
    {NoMeetingInfo, [tag |-> "dict", keys |-> MeetingKeys],
     [tag |-> "dict", keys |-> {"startTime"}]}

\* Bodies that are a JSON object with a string (or no) transcript
WellFormedRequests ==
    [body : {"object"}, transcript : {Str(t) : t \in Transcripts},
     language : Languages, email : Emails, meetingInfo : MeetingInfos]

\* A JSON list given as transcript; v holds its items
ListOf(items) == [tag |-> "list", v |-> items]

\* Bodies that are not JSON, not a JSON object, or sent without a
\* Content-Length header, and objects whose transcript is a list
MalformedRequests ==
    [body : {"notjson", "notobject", "nolength"}, transcript : {Missing},
     language : {Missing}, email : {Missing}, meetingInfo : {NoMeetingInfo}]
    \cup [body : {"object"},
          transcript : {ListOf(Rep("x", n)) : n \in {1, MIN_TRANSCRIPT_LEN}},
          language : {Missing}, email : {Missing, Str(<<"a", "@", "b">>)},
          meetingInfo : {NoMeetingInfo}]

Requests == WellFormedRequests \cup MalformedRequests

NoRequest ==
    [body |-> "none", transcript |-> Missing, language |-> Missing,
     email |-> Missing, meetingInfo |-> NoMeetingInfo]

\* os.getenv values: unset (None), set to the empty string, or set
ApiKeys == {PyNone, Str(<<>>), Str(<<"k">>)}

MailCredentials ==
    {[user |-> Str(<<"u">>), password |-> Str(<<"p">>)],
     [user |-> PyNone, password |-> Str(<<"p">>)],
     [user |-> Str(<<"u">>), password |-> Str(<<>>)]}

Environments == [key : ApiKeys, mail : MailCredentials]

Summaries == {<<"o", "k">>, <<"<", "s", ">">>}

\* What requests.post brings back: a transport failure, or a status and a body.
\* Body shapes: not JSON, JSON without "choices", an empty "choices" list,
\* or choices[0].message.content present (a string or null).
NoOutcome == [transport |-> "none", status |-> 0, body |-> "none", content |-> PyNone]

TransportFailure ==
    [transport |-> "failed", status |-> 0, body |-> "none", content |-> PyNone]

ProviderOutcomes ==
    {TransportFailure}
    \cup { [transport |-> "ok", status |-> st, body |-> b, content |-> PyNone] :
             st \in {200, 302, 500}, b \in {"notjson", "nochoices", "emptychoices"} }
    \cup { [transport |-> "ok", status |-> st, body |-> "content", content |-> c] :
             st \in {200, 302, 500}, c \in {PyNone} \cup {Str(x) : x \in Summaries} }

(***************************************************************************)
(* Responses                                                               *)
(***************************************************************************)
Resp(status, success, summ, emailSent, error, detail) ==
    [status |-> status, success |-> success, summary |-> summ,
     emailSent |-> emailSent, error |-> error, detail |-> detail]

NoResp == Resp(0, "missing", Missing, "missing", "missing", "missing")

\* raise HTTPException(status_code, detail): FastAPI answers {"detail": ...}
HTTPException(status, detail) ==
    Resp(status, "missing", Missing, "missing", "missing", detail)

\* {"success": False, "error": str(e)} with a status code
ErrorJson(status, error) ==
    Resp(status, "false", Missing, "missing", error, "missing")

IsFastAPI(v) == v \in {"clean_server", "working_server", "main"}

ServerError_generic_branch(v, what) ==
    IF v = "main" THEN Resp(200, "false", Missing, "false", what, "missing")
    ELSE IF IsFastAPI(v) THEN HTTPException(500, what) ELSE ErrorJson(500, what)

\* The response of an exception that reaches the handler's except clauses
ServerError(v, what) ==
    IF IsFastAPI(v) THEN HTTPException(500, what) ELSE ErrorJson(500, what)

SuccessResponse(summ, sent) ==
    Resp(200, "true", summ, IF sent THEN "true" ELSE "false", "missing", "missing")

(***************************************************************************)
(* Validation                                                              *)
(***************************************************************************)
\* main.py declares the body as a pydantic model: transcript, language and
\* email are required, meetingInfo is optional but complete when given.
\* The other servers take the body as a plain dict.
SchemaOk(v, r) ==
    v = "main" =>
        /\ r.transcript.tag = "str"
        /\ r.language.tag = "str"
        /\ r.email.tag = "str"
        /\ r.meetingInfo.tag = "dict" => r.meetingInfo.keys = MeetingKeys

\* A body the handler cannot take its fields from.  FastAPI answers 422
\* before the handler runs; in simple_http_server int(None), json.loads or
\* .get raise inside the try block, in simple_server request.json or .get
\* do, and the except clause answers 500.
MalformedBodyResponse(v) ==
    IF IsFastAPI(v) THEN HTTPException(422, "validation") ELSE ErrorJson(500, "malformed")

TranscriptRejected(v, t) ==
    IF v = "main"
    THEN Strip(t) = <<>> \/ Len(t) < MIN_TRANSCRIPT_LEN
    ELSE t = <<>> \/ Len(t) < MIN_TRANSCRIPT_LEN

TooShortResponse(v, t) ==
    IF v = "simple_http_server"
    THEN Resp(400, "missing", Missing, "missing", "too_short", "missing")
    ELSE IF v = "simple_server" THEN ErrorJson(400, "too_short")
    ELSE IF v = "main" /\ Strip(t) = <<>> THEN HTTPException(400, "empty")
    ELSE HTTPException(400, "too_short")

(***************************************************************************)
(* Prompt construction and the provider call                               *)
(***************************************************************************)
DefaultLanguage_english(l) == IF l.tag = "missing" THEN Str(ENGLISH) ELSE l

\* request.get('language', 'korean')
DefaultLanguage(l) == IF l.tag = "missing" THEN Str(KOREAN) ELSE l

KoreanTemplate(v) == IF v = "main" THEN "korean_prompt_main" ELSE "korean_prompt"

EnglishTemplate(v) ==
    IF v \in {"simple_http_server", "simple_server"} THEN "english_one_line"
    ELSE IF v = "main" THEN "english_prompt_main"
    ELSE "english_prompt"

PromptFor_unless_english(v, language) ==
    IF language.v = ENGLISH THEN EnglishTemplate(v) ELSE KoreanTemplate(v)

\* prompt = get_korean_prompt() if language == "korean" else <english prompt>
PromptFor(v, language) ==
    IF language.v = KOREAN THEN KoreanTemplate(v) ELSE EnglishTemplate(v)

\* The transcript as the f-string renders it: a list is shown in brackets
Rendered(x) == IF x.tag = "list" THEN <<"[">> \o x.v \o <<"]">> ELSE x.v

\* f"{prompt}\n\n{transcript}"; main.py inserts a heading before the transcript
UserContent(v, language, t) ==
    <<PromptFor(v, language), "\n", "\n">>
        \o (IF v = "main" THEN <<"meeting_heading", "\n">> ELSE <<>>) \o t

KeyMissing_only_None(key) == key.tag = "None"

\* if not openai_api_key
KeyMissing(key) == ~Truthy(key)

\* response.raise_for_status() raises for 4xx and 5xx only; the other two
\* servers accept the status 200 alone
StatusAccepted(v, status) ==
    IF v \in {"clean_server", "main", "simple_server"}
    THEN status < 400
    ELSE status = 200

\* call_openai_api returns result["choices"][0]["message"]["content"]
ProviderCallReturns(v, o) ==
    o.transport = "ok" /\ StatusAccepted(v, o.status) /\ o.body = "content"

(***************************************************************************)
(* Mail composition and dispatch                                           *)
(***************************************************************************)
\* The guard in front of send_email: "if email:" (clean_server,
\* simple_server), "if email and email.strip():" (working_server,
\* simple_http_server), no guard at all (main)
ShouldSendMail(v, email) ==
    IF v = "main" THEN TRUE
    ELSE IF v \in {"clean_server", "simple_server"} THEN Truthy(email)
    ELSE Truthy(email) /\ Strip(email.v) /= <<>>

Recipient(v, email) ==
    IF v \in {"working_server", "simple_http_server"} THEN Strip(email.v) ELSE email.v

CredentialsMissing_user_only(mail) == ~Truthy(mail.user)

\* if not sender_email or not sender_password
CredentialsMissing(mail) == ~Truthy(mail.user) \/ ~Truthy(mail.password)

MeetingTruthy(mi) == mi.tag = "dict" /\ mi.keys /= {}

\* Building the message raises before any SMTP connection: None has no
\* replace(); working_server indexes meeting_info["date"] of any non-empty dict
ComposeRaises(v, summ, mi) ==
    IF v \in {"simple_http_server", "simple_server"} THEN FALSE
    ELSE IF v = "working_server"
         THEN summ.tag = "None" \/ (MeetingTruthy(mi) /\ "date" \notin mi.keys)
    ELSE summ.tag = "None"

BodySummary_left_out(v, summ) == <<>>

\* The summary as it stands in the HTML body
BodySummary(v, summ) ==
    IF v \in {"simple_http_server", "simple_server"}
    THEN (IF summ.tag = "None" THEN NoneText ELSE summ.v)
    ELSE EscapeHtml(summ.v)

MailMessage(v, email, summ, mi) ==
    [to |-> Recipient(v, email), body |-> BodySummary(v, summ),
     date |-> MeetingTruthy(mi) /\ "date" \in mi.keys]

\* server.send_message(message) takes the recipients from the To header; an
\* empty header gives no recipient and the call raises SMTPRecipientsRefused
\* whatever the relay does.  Any other recipient is up to the relay.
SmtpOutcomesFor(msg) ==
    IF msg.to = <<>> THEN {"connect", "starttls", "login", "send"}
    ELSE {"ok", "connect", "starttls", "login", "send"}

\* What the handler answers when send_email did not deliver: main.py's
\* send_email raises HTTPException(500), the others return False
MailNotSent(v, summ) ==
    IF v = "main" THEN HTTPException(500, "mail_failed") ELSE SuccessResponse(summ, FALSE)

(***************************************************************************)
(* GET /health                                                             *)
(***************************************************************************)
HealthResp(status, keySet, keyLen, mailSet, user, warnings) ==
    [status |-> status, openai_configured |-> keySet, openai_key_length |-> keyLen,
     gmail_configured |-> mailSet, gmail_user |-> user, warnings |-> warnings]

NoHealth == HealthResp(0, FALSE, -1, FALSE, Missing, {})

\* gmail_user[:10] + "..." if gmail_user else None
RedactedUser(user) ==
    IF Truthy(user)
    THEN Str(SubSeq(user.v, 1, IF Len(user.v) < GMAIL_USER_PREFIX THEN Len(user.v)
                                ELSE GMAIL_USER_PREFIX) \o <<".", ".", ".">>)
    ELSE PyNone

\* len(openai_key) if openai_key else 0
KeyLength(key) == IF Truthy(key) THEN Len(key.v) ELSE 0

\* The body of GET /health.  simple_http_server reports the two booleans
\* only; main adds warnings derived from them; simple_server has no such
\* route and answers 404.
HealthResponse(v, e) ==
    LET keySet == Truthy(e.key)
        mailSet == Truthy(e.mail.user) /\ Truthy(e.mail.password)
    IN  IF v = "simple_server" THEN HealthResp(404, FALSE, -1, FALSE, Missing, {})
        ELSE IF v = "simple_http_server"
        THEN HealthResp(200, keySet, -1, mailSet, Missing, {})
        ELSE HealthResp(200, keySet, KeyLength(e.key), mailSet, RedactedUser(e.mail.user),
                 IF v = "main"
                 THEN (IF keySet THEN {} ELSE {"openai"}) \cup (IF mailSet THEN {} ELSE {"gmail"})
                 ELSE {})

\* Handlers run one at a time on the event loop (async def in clean_server
\* and main) or in the single thread of HTTPServer (simple_http_server);
\* working_server declares them with def, which FastAPI runs in a thread
\* pool, and Flask's development server is threaded.
Concurrent(v) == v \in {"working_server", "simple_server"}

\* The server can take up another request now
ServerFree == Concurrent(variant) \/ pc \notin {"provider", "smtp"}

\* A client sends GET /health
HealthArrive ==
    /\ hpc = "none"
    /\ hpc' = "arrived"
    /\ UNCHANGED <<variant, env, env2, health, health2>>
    /\ UNCHANGED rvars

HealthServe_clobbers ==
    /\ hpc = "arrived"
    /\ ServerFree
    /\ hpc' = "done"
    /\ health' = HealthResponse(variant, env)
    /\ health2' = HealthResponse(variant, env2)
    /\ resp' = NoResp
    /\ UNCHANGED <<variant, env, env2>>
    /\ UNCHANGED <<pc, req, providerLog, providerResult, summary, smtpLog, smtpResult>>

\* health_check runs and answers; health2 is the answer the same server
\* gives under the configuration env2
HealthServe ==
    /\ hpc = "arrived"
    /\ ServerFree
    /\ hpc' = "done"
    /\ health' = HealthResponse(variant, env)
    /\ health2' = HealthResponse(variant, env2)
    /\ UNCHANGED <<variant, env, env2>>
    /\ UNCHANGED rvars

\* The health request is over
HealthForget ==
    /\ hpc = "done"
    /\ hpc' = "none"
    /\ health' = NoHealth
    /\ health2' = NoHealth
    /\ UNCHANGED <<variant, env, env2>>
    /\ UNCHANGED rvars

(***************************************************************************)
(* The request handler, cut at its two blocking calls                      *)
(***************************************************************************)
IdleRequest ==
    /\ pc = "idle"
    /\ req = NoRequest
    /\ providerLog = <<>>
    /\ providerResult = NoOutcome
    /\ summary = Missing
    /\ smtpLog = <<>>
    /\ smtpResult = "none"
    /\ resp = NoResp

NoHealthRequest ==
    /\ hpc = "none"
    /\ health = NoHealth
    /\ health2 = NoHealth

Init ==
    /\ variant \in Variants
    /\ env \in Environments
    /\ env2 = env
    /\ IdleRequest
    /\ NoHealthRequest

Respond(r) ==
    /\ pc' = "done"
    /\ resp' = r

Receive_key_first(r) ==
    /\ pc = "idle"
    /\ req' = r
    /\ UNCHANGED <<variant, env, providerResult, summary, smtpLog, smtpResult>>
    /\ UNCHANGED hvars
    /\ IF r.body /= "object"
       THEN Respond(MalformedBodyResponse(variant)) /\ UNCHANGED providerLog
       ELSE IF ~SchemaOk(variant, r)
       THEN Respond(HTTPException(422, "validation")) /\ UNCHANGED providerLog
       ELSE LET t == GetOrEmpty(r.transcript).v
                language == DefaultLanguage(r.language)
            IN  IF KeyMissing(env.key)
                THEN Respond(ServerError(variant, "key_missing")) /\ UNCHANGED providerLog
                ELSE IF TranscriptRejected(variant, t)
                THEN Respond(TooShortResponse(variant, t)) /\ UNCHANGED providerLog
                ELSE /\ providerLog' =
                            Append(providerLog,
                                   UserContent(variant, language,
                                               Rendered(GetOrEmpty(r.transcript))))
                     /\ pc' = "provider"
                     /\ UNCHANGED resp

\* From the arrival of the body to requests.post, or to an early response
Receive(r) ==
    /\ pc = "idle"
    /\ req' = r
    /\ UNCHANGED <<variant, env, providerResult, summary, smtpLog, smtpResult>>
    /\ UNCHANGED hvars
    /\ IF r.body /= "object"
       THEN Respond(MalformedBodyResponse(variant)) /\ UNCHANGED providerLog
       ELSE IF ~SchemaOk(variant, r)
       THEN Respond(HTTPException(422, "validation")) /\ UNCHANGED providerLog
       ELSE LET t == GetOrEmpty(r.transcript).v
                language == DefaultLanguage(r.language)
            IN  IF TranscriptRejected(variant, t)
                THEN Respond(TooShortResponse(variant, t)) /\ UNCHANGED providerLog
                ELSE IF KeyMissing(env.key)
                THEN Respond(ServerError(variant, "key_missing")) /\ UNCHANGED providerLog
                ELSE /\ providerLog' =
                            Append(providerLog,
                                   UserContent(variant, language,
                                               Rendered(GetOrEmpty(r.transcript))))
                     /\ pc' = "provider"
                     /\ UNCHANGED resp

ProviderFailureExit_retry ==
    IF Len(providerLog) < 2
    THEN /\ providerLog' = Append(providerLog, providerLog[1])
         /\ UNCHANGED <<pc, resp, summary, smtpLog>>
    ELSE /\ Respond(ServerError(variant, "provider_failed"))
         /\ UNCHANGED <<providerLog, summary, smtpLog>>

\* An exception of call_openai_api ends the request with one 500 response;
\* the call is not issued again
ProviderFailureExit ==
    /\ Respond(ServerError(variant, "provider_failed"))
    /\ UNCHANGED <<providerLog, summary, smtpLog>>

\* From the return of requests.post to the SMTP connection, or to a response
ProviderReturn(o) ==
    /\ pc = "provider"
    /\ providerResult' = o
    /\ UNCHANGED <<variant, env, req, smtpResult>>
    /\ UNCHANGED hvars
    /\ IF ~ProviderCallReturns(variant, o)
       THEN ProviderFailureExit
       ELSE LET email == GetOrEmpty(req.email)
                mi == req.meetingInfo
            IN  /\ summary' = o.content
                /\ UNCHANGED providerLog
                /\ IF ~ShouldSendMail(variant, email)
                   THEN Respond(SuccessResponse(o.content, FALSE)) /\ UNCHANGED smtpLog
                   ELSE IF CredentialsMissing(env.mail) \/ ComposeRaises(variant, o.content, mi)
                   THEN Respond(MailNotSent(variant, o.content)) /\ UNCHANGED smtpLog
                   ELSE /\ smtpLog' = Append(smtpLog, MailMessage(variant, email, o.content, mi))
                        /\ pc' = "smtp"
                        /\ UNCHANGED resp

\* From the end of the SMTP transaction to the response
SmtpReturn(o) ==
    /\ pc = "smtp"
    /\ o \in SmtpOutcomesFor(smtpLog[1])
    /\ smtpResult' = o
    /\ UNCHANGED <<variant, env, req, providerLog, providerResult, summary, smtpLog>>
    /\ UNCHANGED hvars
    /\ IF o = "ok"
       THEN Respond(SuccessResponse(summary, TRUE))
       ELSE Respond(MailNotSent(variant, summary))

\* The request is over; nothing of it is kept for the next one
NextRequest ==
    /\ pc = "done"
    /\ pc' = "idle"
    /\ req' = NoRequest
    /\ providerLog' = <<>>
    /\ providerResult' = NoOutcome
    /\ summary' = Missing
    /\ smtpLog' = <<>>
    /\ smtpResult' = "none"
    /\ resp' = NoResp
    /\ UNCHANGED <<variant, env>>
    /\ UNCHANGED hvars

Next ==
    \/ \E r \in Requests : Receive(r)
    \/ \E o \in ProviderOutcomes : ProviderReturn(o)
    \/ \E o \in {"ok", "connect", "starttls", "login", "send"} : SmtpReturn(o)
    \/ NextRequest

Spec == Init /\ [][Next]_vars

\* Summarize requests with GET /health requests arriving at any time
NextConcurrent ==
    \/ Next
    \/ HealthArrive
    \/ HealthServe
    \/ HealthForget

SpecConcurrent == Init /\ [][NextConcurrent]_vars

\* Keys of different values and lengths for the comparison of two
\* configurations
HealthEnvironments ==
    [key : ApiKeys \cup {Str(<<"k", "k">>), Str(<<"q">>)}, mail : MailCredentials]

InitHealth ==
    /\ variant \in Variants
    /\ env \in HealthEnvironments
    /\ env2 \in HealthEnvironments
    /\ IdleRequest
    /\ NoHealthRequest

NextHealth ==
    \/ HealthArrive
    \/ HealthServe
    \/ HealthForget

SpecHealth == InitHealth /\ [][NextHealth]_vars

TypeOK ==
    /\ variant \in Variants
    /\ env \in Environments
    /\ env2 = env
    /\ hpc \in {"none", "arrived", "done"}
    /\ pc \in {"idle", "provider", "smtp", "done"}
    /\ Len(providerLog) <= 1
    /\ Len(smtpLog) <= 1

(***************************************************************************)
(* Vocabulary of the properties                                            *)
(***************************************************************************)
Done == pc = "done"

TranscriptText == GetOrEmpty(req.transcript).v

EmailValue == GetOrEmpty(req.email)

\* A request the handler is entered with and whose transcript has at least
\* MIN_TRANSCRIPT_LEN characters once trimmed
ValidRequest ==
    /\ pc /= "idle"
    /\ req.body = "object"
    /\ req.transcript.tag /= "list"
    /\ SchemaOk(variant, req)
    /\ Len(Strip(TranscriptText)) >= MIN_TRANSCRIPT_LEN

FailureResponse == resp.status >= 400 /\ resp.success /= "true"

ServerErrorResponse == resp.status >= 500 /\ resp.success /= "true"

NoOutboundCall == providerLog = <<>> /\ smtpLog = <<>>

\* The provider call came back with a summary text for the handler
Summarized == summary.tag = "str"

SucceededWith(sent) ==
    /\ resp.status = 200
    /\ resp.success = "true"
    /\ resp.summary = summary
    /\ resp.emailSent = sent

\* The provider's answer is not a 2xx response carrying a string content
ProviderFailed ==
    /\ providerResult /= NoOutcome
    /\ \/ providerResult.transport /= "ok"
       \/ providerResult.status < 200
       \/ providerResult.status >= 300
       \/ providerResult.body /= "content"
       \/ providerResult.content.tag /= "str"

StartsWith(content, template) == content /= <<>> /\ Head(content) = template

(***************************************************************************)
(* Properties                                                              *)
(***************************************************************************)
\* C1: a transcript shorter than MIN_TRANSCRIPT_LEN once trimmed (blank ones
\* of any length included) is answered with a failure and no outbound call
\* is made, in every server.
C1_ShortTranscriptRejected ==
    (pc /= "idle" /\ Len(Strip(TranscriptText)) < MIN_TRANSCRIPT_LEN)
        => /\ NoOutboundCall
           /\ Done => FailureResponse

\* C2: when the summary was obtained and the SMTP transaction then fails, the
\* response is still success=true with the summary as computed and
\* emailSent=false, in every server.
C2_MailFailureKeepsSuccess ==
    (Done /\ Summarized /\ smtpResult \notin {"none", "ok"})
        => SucceededWith("false")

\* C3: a valid request whose email is empty or omitted never reaches the mail
\* endpoint and is answered with emailSent=false, in every server.
C3_NoEmailNoMail ==
    (ValidRequest /\ ~Truthy(EmailValue))
        => /\ smtpLog = <<>>
           /\ (Done /\ resp.status = 200) => resp.emailSent = "false"

\* C4: without a configured provider key, a summarize call with a valid
\* transcript ends in a 5xx failure and neither the provider nor the mail
\* relay is contacted.
C4_MissingKeyFailsBeforeAnyCall ==
    (ValidRequest /\ ~Truthy(env.key))
        => /\ NoOutboundCall
           /\ pc = "done"
           /\ ServerErrorResponse

C4_Witness ==
    /\ ValidRequest
    /\ ~Truthy(env.key)
    /\ Done
    /\ resp.status = 500

\* C5: when the provider call fails (transport, non-success status, no usable
\* choices[0].message.content), the request ends in a 5xx failure without a
\* summary and the mail relay is never contacted.
C5_ProviderFailureAborts ==
    ProviderFailed
        => /\ smtpLog = <<>>
           /\ Done => (ServerErrorResponse /\ resp.summary = Missing)

\* C6 as first stated: language "english" gives the English template, every
\* other value and an absent language give the Korean template.
C6_KoreanUnlessEnglish ==
    providerLog /= <<>>
        => IF req.language = Str(ENGLISH)
           THEN StartsWith(providerLog[1], EnglishTemplate(variant))
           ELSE StartsWith(providerLog[1], KoreanTemplate(variant))

\* C6 amended: language "english" gives the English template, language
\* "korean" or an absent language gives the Korean template, and any other
\* supplied value gives the English template.
C6_KoreanIsTheDefaultOnly ==
    providerLog /= <<>>
        => IF req.language \in {Missing, Str(KOREAN)}
           THEN StartsWith(providerLog[1], KoreanTemplate(variant))
           ELSE StartsWith(providerLog[1], EnglishTemplate(variant))

C6_Witness ==
    /\ pc = "provider"
    /\ req.language = Missing
    /\ StartsWith(providerLog[1], KoreanTemplate(variant))

\* C7: for a supplied language the Korean template is used exactly when the
\* value is the string "korean"; every other supplied value selects the
\* English template.
C7_KoreanExactlyForKorean ==
    (providerLog /= <<>> /\ req.language.tag = "str")
        => /\ StartsWith(providerLog[1], KoreanTemplate(variant))
                <=> req.language.v = KOREAN
           /\ req.language.v /= KOREAN
                => StartsWith(providerLog[1], EnglishTemplate(variant))

C7_Witness ==
    /\ pc = "provider"
    /\ req.language = Str(FRENCH)
    /\ StartsWith(providerLog[1], EnglishTemplate(variant))

\* C8: the HTML body handed to the relay holds the summary with '<' and '>'
\* replaced by their entities, so no raw angle bracket of the summary is in it.
C8_SummaryEscapedInMail ==
    (smtpLog /= <<>> /\ summary.tag = "str")
        => /\ smtpLog[1].body = EscapeHtml(summary.v)
           /\ \A i \in 1..Len(smtpLog[1].body) : smtpLog[1].body[i] \notin {"<", ">"}

\* C9: emailSent=true only if the request carried a non-empty email, both
\* mail credentials are configured and the SMTP transaction of the request
\* completed without error.
C9_EmailSentOnlyIfDelivered ==
    (Done /\ resp.emailSent = "true")
        => /\ Truthy(EmailValue)
           /\ Truthy(env.mail.user) /\ Truthy(env.mail.password)
           /\ smtpLog /= <<>> /\ smtpResult = "ok"

C9_Witness ==
    /\ Done
    /\ resp.emailSent = "true"
    /\ smtpResult = "ok"
    /\ Truthy(EmailValue)

\* C10: with a mail credential missing, a valid request that names an email
\* opens no SMTP connection and, once summarized, is answered success=true
\* with the summary and emailSent=false.
C10_MissingMailCredentialsSkipSilently ==
    (ValidRequest /\ Truthy(EmailValue)
        /\ (~Truthy(env.mail.user) \/ ~Truthy(env.mail.password)))
        => /\ smtpLog = <<>>
           /\ (Done /\ Summarized) => SucceededWith("false")

\* C11: every response is either 200 with success=true, a summary and
\* emailSent, or a 4xx/5xx whose body has success=false and an error string.
C11_ResponseShape ==
    Done
        => \/ /\ resp.status = 200
              /\ resp.success = "true"
              /\ resp.summary /= Missing
              /\ resp.emailSent /= "missing"
           \/ /\ resp.status >= 400
              /\ resp.success = "false"
              /\ resp.error /= "missing"

\* The provider answered 200 with a string content S
ProviderGaveSummary ==
    /\ providerResult.transport = "ok"
    /\ providerResult.status = 200
    /\ providerResult.body = "content"
    /\ providerResult.content.tag = "str"

MailConfigured == Truthy(env.mail.user) /\ Truthy(env.mail.password)

NonBlankEmail == Truthy(EmailValue) /\ Strip(EmailValue.v) /= <<>>

\* The relay refused nothing: the SMTP transaction succeeded or was not tried
RelayAccepts == smtpResult \in {"none", "ok"}

\* C13: with key and mail credentials configured, a provider content S and an
\* accepting relay, a valid request with a non-blank email is answered
\* {success: true, summary: S, emailSent: true}, and the same request with an
\* empty email {success: true, summary: S, emailSent: false}.
C13_EndToEnd ==
    (Done /\ ValidRequest /\ Truthy(env.key) /\ MailConfigured /\ ProviderGaveSummary)
        => /\ (NonBlankEmail /\ RelayAccepts)
                => (SucceededWith("true") /\ resp.summary = providerResult.content)
           /\ EmailValue = Str(<<>>)
                => (SucceededWith("false") /\ resp.summary = providerResult.content)

\* C14: a meetingInfo object lacking fields (no 'date') does not make mail
\* composition raise: with a valid email, configured credentials and an
\* accepting relay the mail is sent and emailSent=true.
C14_PartialMeetingInfoStillMails ==
    (Done /\ ValidRequest /\ MailConfigured /\ ProviderGaveSummary
        /\ MeetingTruthy(req.meetingInfo) /\ "date" \notin req.meetingInfo.keys
        /\ NonBlankEmail /\ RelayAccepts)
        => /\ smtpLog /= <<>>
           /\ SucceededWith("true")

\* C20: a valid request whose email is non-empty but blank never reaches the
\* mail endpoint and is answered emailSent=false; mail is only ever
\* dispatched to a non-blank recipient.
C20_BlankEmailSkipsMail ==
    /\ (ValidRequest /\ Truthy(EmailValue) /\ Strip(EmailValue.v) = <<>>)
            => /\ smtpLog = <<>>
               /\ (Done /\ resp.status = 200) => resp.emailSent = "false"
    /\ smtpLog /= <<>> => Strip(smtpLog[1].to) /= <<>>

\* The text of the summary as the handler holds it
SummaryText == IF summary.tag = "None" THEN NoneText ELSE summary.v

ProviderRaised ==
    /\ providerResult /= NoOutcome
    /\ \/ providerResult.transport /= "ok"
       \/ providerResult.status >= 400
       \/ providerResult.body /= "content"

SmtpRaised == smtpResult \notin {"none", "ok"}

MalformedInput ==
    /\ pc /= "idle"
    /\ req.body /= "object" \/ req.transcript.tag = "list"

\* C15: a malformed input (body not JSON, not a JSON object, no
\* Content-Length, transcript not a string) is answered with a 4xx, never a
\* 5xx, and never reaches the summarization endpoint.
C15_MalformedInputIsClientError ==
    MalformedInput
        => /\ providerLog = <<>>
           /\ Done => (resp.status >= 400 /\ resp.status < 500)

\* The two configurations have the same credentials present and differ at
\* most in the provider key
SamePresence ==
    /\ env.mail = env2.mail
    /\ Truthy(env.key) <=> Truthy(env2.key)

\* C12: the /health answer depends on the secrets only through their
\* presence: two configurations with the same credentials present and
\* different provider keys get identical answers, and the mail password is
\* in no answer.
C12_HealthRevealsPresenceOnly ==
    (hpc = "done" /\ SamePresence)
        => /\ health = health2
           /\ Truthy(env.mail.password) => health.gmail_user /= env.mail.password

\* C18: while a summarize request waits for its outbound call, a GET /health
\* request that has arrived can be served, in every server.
C18_WaitingDoesNotBlock ==
    (pc \in {"provider", "smtp"} /\ hpc = "arrived") => ENABLED HealthServe

\* C19: no handler writes the shared configuration, and a step of one
\* request leaves the state, calls and response of the other request as they
\* are, in every interleaving.
C19_RequestsIndependent ==
    [][ /\ env' = env
        /\ variant' = variant
        /\ (hpc' /= hpc) => UNCHANGED rvars
        /\ (pc' /= pc) => UNCHANGED <<hpc, health, health2>> ]_vars

C19_Witness ==
    /\ pc = "provider"
    /\ hpc = "done"
    /\ health.status = 200

\* The provider call of the request returned a content to the handler
ProviderCallReturned == summary /= Missing

\* One of the two early exits: a failure answered before the provider call
\* returned a content, with no mail attempted
EarlyExit == FailureResponse /\ ~ProviderCallReturned /\ smtpLog = <<>>

\* The handler moves forward only: from the body to the provider call or a
\* response, from the provider call to the relay or a response, from the
\* relay to a response
LinearStep ==
    \/ pc' = pc
    \/ pc = "idle" /\ pc' \in {"provider", "done"}
    \/ pc = "provider" /\ pc' \in {"smtp", "done"}
    \/ pc = "smtp" /\ pc' = "done"
    \/ pc = "done" /\ pc' = "idle"

\* C21: a request moves through validate, provider call, optional mail and
\* response in this order, each outbound call that comes back moves it on,
\* it is answered exactly once, and the answer is an early exit (validation
\* or provider/configuration failure, before any summary and any mail) or a
\* success; once the provider call returned, a mail failure leaves a success.
C21_LinearPipeline ==
    [][ /\ LinearStep
        /\ (resp' /= NoResp) <=> (pc' = "done")
        /\ (pc' = "provider") => (ENABLED (\E o \in ProviderOutcomes : ProviderReturn(o)))'
        /\ (pc' = "smtp")
              => (ENABLED (\E o \in {"ok", "connect", "starttls", "login", "send"} :
                              SmtpReturn(o)))'
        /\ (pc' = "done")
              => (\/ EarlyExit'
                  \/ (resp.status = 200 /\ resp.success = "true" /\ ProviderCallReturned)') ]_vars

\* The transcript as received has fewer than MIN_TRANSCRIPT_LEN characters
TooShort ==
    /\ pc /= "idle"
    /\ req.body = "object"
    /\ SchemaOk(variant, req)
    /\ Len(TranscriptText) < MIN_TRANSCRIPT_LEN

\* C22: the transcript is validated before the provider key is looked at: a
\* too-short transcript is answered 400 with or without a provider key, and
\* the answer is the same under every configuration.
C22_ValidationBeforeKeyCheck ==
    TooShort
        => /\ Done
           /\ resp.status = 400
           /\ resp = TooShortResponse(variant, TranscriptText)
           /\ NoOutboundCall

C22_Witness ==
    /\ TooShort
    /\ ~Truthy(env.key)
    /\ ~Truthy(env.mail.user)
    /\ Done
    /\ resp.status = 400

\* C23: the status is 200 exactly when the body has success=true and the
\* summary field; no response is 200 with success=false, and no response
\* other than 200 carries a summary.
C23_StatusAgreesWithSuccess ==
    Done
        => /\ (resp.status = 200) <=> (resp.success = "true" /\ resp.summary /= Missing)
           /\ ~(resp.status = 200 /\ resp.success = "false")
           /\ (resp.status /= 200) => (resp.status >= 400 /\ resp.summary = Missing)
           /\ (resp.status = 200) => (resp.summary = summary /\ ProviderCallReturned)

C23_Witness ==
    /\ Done
    /\ variant = "main"
    /\ Summarized
    /\ resp.status = 500
    /\ resp.success /= "true"
    /\ resp.summary = Missing

====
